---- MODULE Spec2Model ----
(***************************************************************************)
(* A model of rekall's pool-scanning plugins                               *)
(* (rekall-core/rekall/plugins/windows/filescan.py): filescan, driverscan, *)
(* symlinkscan, mutantscan and psscan.                                     *)
(*                                                                         *)
(* Memory is a row of MemSize pool-aligned blocks.  A block either holds   *)
(* nothing of interest or starts a pool allocation: a _POOL_HEADER (tag,   *)
(* size, state, index) followed by the object bodies IterObject finds in   *)
(* it.  Pointer values are counted in units of 0x10000 bytes, so that      *)
(* 0x80000000 is 32768; DirectoryTableBase values are counted in bytes.    *)
(* Every address space a run names shows the image at the same block       *)
(* offsets; what differs between a PhysicalAS run and another is how the   *)
(* candidate's virtual counterpart is found.                               *)
(***************************************************************************)
EXTENDS Integers, Sequences, FiniteSets, TLC

VARIABLES
    plugin,             \* the plugin that runs: its __name / name
    mem,                \* the image: block -> NoPool or a pool allocation
    pae,                \* kernel_address_space.metadata("pae")
    MmSystemRangeStart, \* the profile's constant; 0 when zero or absent
    verbosity,          \* plugin_args.verbosity (mutantscan)
    pslist_tasks,       \* what pslist.list_eprocess() enumerates, in order
    runs,               \* what generate_memory_ranges() returns, in order
    pc,                 \* where the plugin's generator stands
    todo_tasks,         \* the part of list_eprocess() not yet consumed
    known_eprocess,     \* PSScan.collect's local set
    known_pids,         \* PSScan.collect's local set
    run_i,              \* index of the run being scanned (0: none yet)
    dtb_alignment,      \* PoolScanProcess.dtb_alignment of the live scanner
    kernel,             \* PoolScanProcess.kernel of the live scanner
    hits,               \* objects the live scanner has still to look at
    rows                \* the rows emitted so far, in order

vars == <<plugin, mem, pae, MmSystemRangeStart, verbosity, pslist_tasks, runs,
          pc, todo_tasks, known_eprocess, known_pids, run_i, dtb_alignment,
          kernel, hits, rows>>

env == <<plugin, mem, pae, MmSystemRangeStart, verbosity, pslist_tasks, runs>>

(***************************************************************************)
(* Bounds of the model.                                                    *)
(***************************************************************************)
MemSize == 2    \* blocks of memory
MaxObjs == 2    \* object bodies in one pool allocation
MaxRuns == 2    \* memory runs of one psscan
MaxTasks == 2   \* processes the authoritative list holds

(***************************************************************************)
(* Program constants.                                                      *)
(***************************************************************************)
KernelDefault == 32768      \* 0x80000000, in units of 0x10000
DtbAlignPae == 32           \* 0x20
DtbAlignPage == 4096        \* 0x1000
MutantVerbosity == 5        \* "verbosity < 5"
MutantKernel == 32768       \* the 0x80000000 of MutantScan.render

\* A second boundary a profile may report (0xC0000000, a /3GB kernel).
KernelHigh == KernelDefault + 16384

NoPool == [tag |-> "none"]

Blocks == 0 .. MemSize - 1
PoolStates == {"paged", "non_paged", "free"}

(***************************************************************************)
(* Sequence helpers.                                                       *)
(***************************************************************************)
Min(S) == CHOOSE x \in S : \A y \in S : x <= y

RECURSIVE SortedSeq(_)
SortedSeq(S) ==
    IF S = {} THEN <<>> ELSE <<Min(S)>> \o SortedSeq(S \ {Min(S)})

RECURSIVE Flatten(_)
Flatten(ss) ==
    IF ss = <<>> THEN <<>> ELSE Head(ss) \o Flatten(Tail(ss))

(***************************************************************************)
(* The profile: pool tags and object sizes (in blocks).                    *)
(***************************************************************************)
get_constant(name) ==
    CASE name = "FILE_POOLTAG" -> "Fil"
      [] name = "DRIVER_POOLTAG" -> "Dri"
      [] name = "SYMLINK_POOLTAG" -> "Sym"
      [] name = "MUTANT_POOLTAG" -> "Mut"
      [] name = "EPROCESS_POOLTAG" -> "Pro"

get_obj_size(type) == 2

(***************************************************************************)
(* The check lists of the five scanners.  min_size is CheckPoolSize's      *)
(* min_size, or, with strict, the bound of its condition "x > bound".      *)
(***************************************************************************)
PoolScanFile_checks ==
    [tag |-> get_constant("FILE_POOLTAG"),
     min_size |-> get_obj_size("_FILE_OBJECT"), strict |-> FALSE,
     paged |-> TRUE, non_paged |-> TRUE, free |-> TRUE,
     has_index |-> TRUE, index |-> 0]

PoolScanDriver_checks ==
    [tag |-> get_constant("DRIVER_POOLTAG"),
     min_size |-> get_obj_size("_DRIVER_OBJECT"), strict |-> TRUE,
     paged |-> TRUE, non_paged |-> TRUE, free |-> TRUE,
     has_index |-> TRUE, index |-> 0]

PoolScanSymlink_checks ==
    [tag |-> get_constant("SYMLINK_POOLTAG"),
     min_size |-> get_obj_size("_OBJECT_SYMBOLIC_LINK"), strict |-> FALSE,
     paged |-> TRUE, non_paged |-> TRUE, free |-> TRUE,
     has_index |-> FALSE, index |-> 0]

PoolScanMutant_checks ==
    [tag |-> get_constant("MUTANT_POOLTAG"),
     min_size |-> get_obj_size("_KMUTANT"), strict |-> FALSE,
     paged |-> TRUE, non_paged |-> TRUE, free |-> TRUE,
     has_index |-> TRUE, index |-> 0]

\* Mutant: free allocations are filtered out.
PoolScanProcess_checks_no_free ==
    [tag |-> get_constant("EPROCESS_POOLTAG"),
     min_size |-> get_obj_size("_EPROCESS"), strict |-> FALSE,
     paged |-> TRUE, non_paged |-> TRUE, free |-> FALSE,
     has_index |-> TRUE, index |-> 0]

PoolScanProcess_checks ==
    [tag |-> get_constant("EPROCESS_POOLTAG"),
     min_size |-> get_obj_size("_EPROCESS"), strict |-> FALSE,
     paged |-> TRUE, non_paged |-> TRUE, free |-> TRUE,
     has_index |-> TRUE, index |-> 0]

ChecksOf(p) ==
    CASE p = "filescan" -> PoolScanFile_checks
      [] p = "driverscan" -> PoolScanDriver_checks
      [] p = "symlinkscan" -> PoolScanSymlink_checks
      [] p = "mutantscan" -> PoolScanMutant_checks
      [] p = "psscan" -> PoolScanProcess_checks

(***************************************************************************)
(* The generic scan engine (rekall.plugins.windows.common, rekall.scan),   *)
(* which the scanners of this file configure and call.                     *)
(***************************************************************************)
PoolTagCheck(c, pool) == pool.tag = c.tag

CheckPoolSize(c, pool) ==
    IF c.strict THEN pool.size > c.min_size ELSE pool.size >= c.min_size

CheckPoolType(c, pool) ==
    \/ c.non_paged /\ pool.state = "non_paged"
    \/ c.free /\ pool.state = "free"
    \/ c.paged /\ pool.state = "paged"

CheckPoolIndex(c, pool) == c.has_index => pool.index = c.index

\* The check chain, in order, rejecting on the first failure.
check_addr(c, pool) ==
    /\ pool.tag # "none"
    /\ PoolTagCheck(c, pool)
    /\ CheckPoolSize(c, pool)
    /\ CheckPoolType(c, pool)
    /\ CheckPoolIndex(c, pool)

\* A _POOL_HEADER spans this many blocks; the engine reads each window
\* with an overlap of one header less a block past its end.
HeaderBlocks == 2
Overlap == HeaderBlocks - 1

\* scan(offset, maxlen): the headers that start in [offset, offset+maxlen),
\* lie whole in the buffer read for the window and pass the checks, in
\* ascending order.
BaseScan(c, m, offset, maxlen) ==
    SortedSeq({a \in DOMAIN m :
                  /\ offset <= a
                  /\ a < offset + maxlen
                  /\ a + HeaderBlocks <= offset + maxlen + Overlap
                  /\ check_addr(c, m[a])})

FreePool(pool) == pool.state = "free"

\* Objects sit behind their pool header, one block each.
ObjStride == MaxObjs + 1
ObjOffset(a, i) == a * ObjStride + i

\* pool_obj.IterObject(type, freed): the object headers found in the
\* allocation, in ascending order: those of the type asked for and, with
\* freed, those whose type index marks a freed object.
IterObject(m, a, freed) ==
    LET all == [i \in 1 .. Len(m[a].objs) |->
                  [pool |-> a, obj_offset |-> ObjOffset(a, i),
                   body |-> m[a].objs[i]]]
        Found(h) == freed \/ ~h.body.freed
    IN  SelectSeq(all, Found)

\* Every object of every pool header of a hit list, in scan order.
ObjectsOf(m, headers, freed) ==
    Flatten([k \in 1 .. Len(headers) |-> IterObject(m, headers[k], freed)])

(***************************************************************************)
(* The images, profiles and arguments a run may be given.                  *)
(***************************************************************************)
SeqsUpTo(S, n) == UNION {[1 .. k -> S] : k \in 0 .. n}
NonEmptySeqsUpTo(S, n) == UNION {[1 .. k -> S] : k \in 1 .. n}

Pool(tag, size, state, index, objs) ==
    [tag |-> tag, size |-> size, state |-> state, index |-> index,
     objs |-> objs]

\* An allocation the check list of plugin p accepts.
GoodPool(p, state, objs) ==
    Pool(ChecksOf(p).tag, ChecksOf(p).min_size + 1, state, 0, objs)

\* Allocations that differ from a good one in one header field.
OddPools(p, objs) ==
    {Pool("Othr", ChecksOf(p).min_size + 1, "non_paged", 0, objs),
     Pool(ChecksOf(p).tag, ChecksOf(p).min_size - 1, "non_paged", 0, objs),
     Pool(ChecksOf(p).tag, ChecksOf(p).min_size, "non_paged", 0, objs),
     Pool(ChecksOf(p).tag, ChecksOf(p).min_size + 1, "non_paged", 1, objs)}

MemWith(f) == [a \in Blocks |-> IF a \in DOMAIN f THEN f[a] ELSE NoPool]

VirtA == KernelDefault + 256
VirtB == KernelDefault + 512
Pids == {4, 8}
PtrValues == {KernelDefault - 1, KernelDefault, KernelHigh}
DtbValues == {0, 16, DtbAlignPae, DtbAlignPage}

Eprocess(dtb, flink, blink, pid, va) ==
    [DirectoryTableBase |-> dtb, Flink |-> flink, Blink |-> blink,
     UniqueProcessId |-> pid, virtual_offset |-> va, freed |-> FALSE]

\* A process body every mode accepts.
SoundProcess(pid, va) == Eprocess(DtbAlignPage, KernelHigh, KernelHigh, pid, va)

\* The same, left behind by a process that has exited and been freed.
FreedProcess(pid, va) == [SoundProcess(pid, va) EXCEPT !.freed = TRUE]

Task(va, pid) == [obj_offset |-> va, UniqueProcessId |-> pid]

Run(start, length, type) == [start |-> start, length |-> length, type |-> type]
RunTypes == {"PhysicalAS", "KernelAS"}
Windows ==
    {w \in Blocks \X (1 .. MemSize) : w[1] + w[2] <= MemSize}

Scenario(p, m, e, k, v, t, r) ==
    [plugin |-> p, mem |-> m, pae |-> e, MmSystemRangeStart |-> k,
     verbosity |-> v, pslist_tasks |-> t, runs |-> r]

\* psscan, the structural checks: one allocation of one process body, every
\* header and body field varied, under each addressing mode and boundary.
PsValidity ==
    {Scenario("psscan", MemWith(0 :> pl @@ 1 :> nx), e, k, 1,
              <<Task(VirtA, 4)>>, <<Run(0, MemSize, "PhysicalAS")>>) :
        pl \in {GoodPool("psscan", st, <<Eprocess(d, l[1], l[2], 4, VirtA)>>) :
                    st \in PoolStates, d \in DtbValues,
                    l \in PtrValues \X PtrValues}
                \cup OddPools("psscan", <<SoundProcess(4, VirtA)>>),
        nx \in {NoPool,
                GoodPool("psscan", "non_paged", <<SoundProcess(8, VirtB)>>),
                GoodPool("psscan", "free", <<FreedProcess(8, VirtB)>>)},
        e \in BOOLEAN, k \in {0, KernelHigh}}

\* psscan, the cross-reference: every authoritative list of up to MaxTasks
\* processes against one sound candidate, scanned physically or virtually.
PsKnown ==
    {Scenario("psscan",
              MemWith(0 :> GoodPool("psscan", "non_paged",
                                    <<SoundProcess(pid, va)>>)),
              FALSE, 0, 1, t, <<Run(0, MemSize, ty)>>) :
        pid \in Pids, va \in {VirtA, VirtB}, ty \in RunTypes,
        t \in {q \in SeqsUpTo({Task(a, i) : a \in {ObjOffset(0, 1), VirtA},
                                             i \in Pids}, MaxTasks) :
                  \A i, j \in 1 .. Len(q) : i # j => q[i] # q[j]}}

\* Two runs of one address space do not cover the same block.
Disjoint(r1, r2) ==
    \/ r1.type # r2.type
    \/ r1.start + r1.length <= r2.start
    \/ r2.start + r2.length <= r1.start

\* psscan, the layout: any placement of allocations holding one or MaxObjs
\* sound bodies, scanned as any sequence, in any order, of up to MaxRuns
\* runs.
PsLayout ==
    {Scenario("psscan", m, FALSE, 0, 1, <<Task(VirtA, 4)>>, r) :
        m \in [Blocks ->
                {NoPool,
                 GoodPool("psscan", "non_paged", <<SoundProcess(4, VirtA)>>),
                 GoodPool("psscan", "free",
                          [i \in 1 .. MaxObjs |-> FreedProcess(8, VirtB)])}],
        r \in {q \in NonEmptySeqsUpTo(
                        {Run(w[1], w[2], ty) : w \in Windows, ty \in RunTypes},
                        MaxRuns) :
                  \A i, j \in 1 .. Len(q) : i # j => Disjoint(q[i], q[j])}}

FileBodies ==
    [FileName : {"", "a.txt"}, DeviceTypeValid : BOOLEAN, freed : {FALSE}]
DriverBodies == [Name : {"", "drv"}, DriverName : {"Driver"}, freed : {FALSE}]
SymlinkBodies ==
    [Name : {"C:"}, LinkTarget : {"Device"}, CreationTime : {0, 7},
     freed : {FALSE}]
MutantBodies ==
    [Name : {"", "mtx"},
     OwnerThread : {0, KernelDefault, KernelDefault + 1, KernelHigh},
     Cid : {<<4, 12>>},
     freed : {FALSE}]

BodiesOf(p) ==
    CASE p = "filescan" -> FileBodies
      [] p = "driverscan" -> DriverBodies
      [] p = "symlinkscan" -> SymlinkBodies
      [] p = "mutantscan" -> MutantBodies

\* A body the plugin's generate_hits yields at every verbosity.
SoundBody(p, f) ==
    CASE p = "filescan" ->
            [FileName |-> "a.txt", DeviceTypeValid |-> TRUE, freed |-> f]
      [] p = "driverscan" ->
            [Name |-> "drv", DriverName |-> "Driver", freed |-> f]
      [] p = "symlinkscan" ->
            [Name |-> "C:", LinkTarget |-> "Device", CreationTime |-> 7,
             freed |-> f]
      [] p = "mutantscan" ->
            [Name |-> "mtx", OwnerThread |-> KernelHigh, Cid |-> <<4, 12>>,
             freed |-> f]

\* filescan, driverscan, symlinkscan and mutantscan: one allocation with
\* every header field and every sequence of up to MaxObjs bodies varied,
\* followed or not by a second, good allocation, live or freed.
HitsContent(p, verbosities, boundaries) ==
    {Scenario(p, MemWith(0 :> pl @@ 1 :> nx), FALSE, k, v, <<>>, <<>>) :
        pl \in {GoodPool(p, st, objs) :
                    st \in PoolStates,
                    objs \in NonEmptySeqsUpTo(BodiesOf(p), MaxObjs)}
                \cup UNION {OddPools(p, <<b>>) : b \in BodiesOf(p)},
        nx \in {NoPool,
                GoodPool(p, "paged", <<SoundBody(p, FALSE)>>),
                GoodPool(p, "free", <<SoundBody(p, TRUE)>>)},
        v \in verbosities, k \in boundaries}

Scenarios ==
    PsValidity \cup PsKnown \cup PsLayout
    \cup HitsContent("filescan", {1}, {0})
    \cup HitsContent("driverscan", {1}, {0})
    \cup HitsContent("symlinkscan", {1}, {0})
    \cup HitsContent("mutantscan",
                     {MutantVerbosity - 1, MutantVerbosity, MutantVerbosity + 1},
                     {0, KernelHigh})

Init ==
    /\ \E s \in Scenarios :
          /\ plugin = s.plugin
          /\ mem = s.mem
          /\ pae = s.pae
          /\ MmSystemRangeStart = s.MmSystemRangeStart
          /\ verbosity = s.verbosity
          /\ pslist_tasks = s.pslist_tasks
          /\ runs = s.runs
    /\ pc = "start"
    /\ todo_tasks = <<>>
    /\ known_eprocess = {}
    /\ known_pids = {}
    /\ run_i = 0
    /\ dtb_alignment = 0
    /\ kernel = KernelDefault
    /\ hits = <<>>
    /\ rows = <<>>

(***************************************************************************)
(* PoolScanProcess.                                                        *)
(***************************************************************************)
\* Mutant: the profile's MmSystemRangeStart is not consulted.
PoolScanProcess_kernel_fixed(mm) == KernelDefault

\* __init__: self.kernel = MmSystemRangeStart or 0x80000000.
PoolScanProcess_kernel(mm) == IF mm # 0 THEN mm ELSE KernelDefault

\* __init__: the DTB alignment, from the "pae" capability.
PoolScanProcess_dtb_alignment(e) == IF e THEN DtbAlignPae ELSE DtbAlignPage

\* Mutant: the bodies of the scan come out last first.
PoolScanProcess_candidates_reversed(m, offset, maxlen) ==
    LET c == ObjectsOf(m, BaseScan(PoolScanProcess_checks, m, offset, maxlen),
                       TRUE)
    IN  [k \in 1 .. Len(c) |-> c[Len(c) + 1 - k]]

\* scan: super().scan(**kwargs), then IterObject("Process", freed=True) on
\* each pool header.
PoolScanProcess_candidates(m, offset, maxlen) ==
    ObjectsOf(m, BaseScan(PoolScanProcess_checks, m, offset, maxlen), TRUE)

\* Mutant: the test for a zero DirectoryTableBase is missing.
PoolScanProcess_accepts_zero(eprocess, align, kern) ==
    /\ ~(eprocess.DirectoryTableBase % align # 0)
    /\ ~(eprocess.Flink < kern \/ eprocess.Blink < kern)

\* scan: the checks on one _EPROCESS; FALSE where the code continues.
PoolScanProcess_accepts(eprocess, align, kern) ==
    /\ ~(eprocess.DirectoryTableBase = 0)
    /\ ~(eprocess.DirectoryTableBase % align # 0)
    /\ ~(eprocess.Flink < kern \/ eprocess.Blink < kern)

(***************************************************************************)
(* PSScan.collect.                                                         *)
(***************************************************************************)
\* pslist.virtual_process_from_physical_offset: the address-translation
\* collaborator, which resolves a physical body to its virtual address.
virtual_process_from_physical_offset(hit) == hit.body.virtual_offset

PSScan_virtual_eprocess(run, hit) ==
    IF run.type = "PhysicalAS"
    THEN virtual_process_from_physical_offset(hit)
    ELSE hit.obj_offset

\* Mutant: the pid is looked up only for a process known by address.
PSScan_known_nested(virtual_eprocess, pid, ke, kp) ==
    IF virtual_eprocess \in ke
    THEN <<"E">> \o (IF pid \in kp THEN <<"P">> ELSE <<>>)
    ELSE <<>>

\* known = ""; known += "E"; known += "P"
PSScan_known(virtual_eprocess, pid, ke, kp) ==
    (IF virtual_eprocess \in ke THEN <<"E">> ELSE <<>>)
    \o (IF pid \in kp THEN <<"P">> ELSE <<>>)

Allocated(pool) == IF FreePool(pool) THEN "F" ELSE ""

PSScan_row(m, run, i, hit, ke, kp) ==
    [allocated |-> Allocated(m[hit.pool]),
     offset_p |-> hit.obj_offset,
     eprocess |-> hit.body,
     offset_v |-> PSScan_virtual_eprocess(run, hit),
     pdb |-> hit.body.DirectoryTableBase,
     stat |-> PSScan_known(PSScan_virtual_eprocess(run, hit),
                           hit.body.UniqueProcessId, ke, kp),
     pool |-> hit.pool,
     run |-> run,
     run_index |-> i]

\* Mutant: the run's start is not passed on.
PSScan_scan_args_from_zero(run) == [offset |-> 0, maxlen |-> run.length]

\* The scan arguments collect passes for one run.
PSScan_scan_args(run) == [offset |-> run.start, maxlen |-> run.length]

\* pslist = self.session.plugins.pslist(); the two sets start empty.
collect_begin ==
    /\ plugin = "psscan"
    /\ pc = "start"
    /\ known_eprocess' = {}
    /\ known_pids' = {}
    /\ todo_tasks' = pslist_tasks
    /\ pc' = "list"
    /\ UNCHANGED <<env, run_i, dtb_alignment, kernel, hits, rows>>

\* One turn of "for task in pslist.list_eprocess()".
collect_task ==
    /\ pc = "list"
    /\ todo_tasks # <<>>
    /\ known_eprocess' = known_eprocess \cup {Head(todo_tasks).obj_offset}
    /\ known_pids' = known_pids \cup {Head(todo_tasks).UniqueProcessId}
    /\ todo_tasks' = Tail(todo_tasks)
    /\ UNCHANGED <<env, pc, run_i, dtb_alignment, kernel, hits, rows>>

\* The loop over list_eprocess() or the scan of the last run has ended.
BetweenRuns ==
    \/ pc = "list" /\ todo_tasks = <<>>
    \/ pc = "scan" /\ hits = <<>>

\* The next "for run in self.generate_memory_ranges()": a scanner is built
\* for the run and its scan begins.
collect_run ==
    /\ plugin = "psscan"
    /\ BetweenRuns
    /\ run_i < Len(runs)
    /\ run_i' = run_i + 1
    /\ kernel' = PoolScanProcess_kernel(MmSystemRangeStart)
    /\ dtb_alignment' = PoolScanProcess_dtb_alignment(pae)
    /\ hits' = PoolScanProcess_candidates(
                   mem, PSScan_scan_args(runs[run_i + 1]).offset,
                   PSScan_scan_args(runs[run_i + 1]).maxlen)
    /\ pc' = "scan"
    /\ UNCHANGED <<env, todo_tasks, known_eprocess, known_pids, rows>>

\* PoolScanProcess.scan meets a body that fails its checks: continue.
scan_continue ==
    /\ plugin = "psscan"
    /\ pc = "scan"
    /\ hits # <<>>
    /\ ~PoolScanProcess_accepts(Head(hits).body, dtb_alignment, kernel)
    /\ hits' = Tail(hits)
    /\ UNCHANGED <<env, pc, todo_tasks, known_eprocess, known_pids, run_i,
                   dtb_alignment, kernel, rows>>

\* Mutant: collect adds each scanned process to the known pids.
collect_yield_learns ==
    /\ plugin = "psscan"
    /\ pc = "scan"
    /\ hits # <<>>
    /\ PoolScanProcess_accepts(Head(hits).body, dtb_alignment, kernel)
    /\ rows' = Append(rows, PSScan_row(mem, runs[run_i], run_i, Head(hits),
                                       known_eprocess, known_pids))
    /\ known_pids' = known_pids \cup {Head(hits).body.UniqueProcessId}
    /\ hits' = Tail(hits)
    /\ UNCHANGED <<env, pc, todo_tasks, known_eprocess, run_i,
                   dtb_alignment, kernel>>

\* PoolScanProcess.scan yields a body and collect yields its row.
collect_yield ==
    /\ plugin = "psscan"
    /\ pc = "scan"
    /\ hits # <<>>
    /\ PoolScanProcess_accepts(Head(hits).body, dtb_alignment, kernel)
    /\ rows' = Append(rows, PSScan_row(mem, runs[run_i], run_i, Head(hits),
                                       known_eprocess, known_pids))
    /\ hits' = Tail(hits)
    /\ UNCHANGED <<env, pc, todo_tasks, known_eprocess, known_pids, run_i,
                   dtb_alignment, kernel>>

\* No run is left: the generator is exhausted.
collect_done ==
    /\ plugin = "psscan"
    /\ BetweenRuns
    /\ run_i = Len(runs)
    /\ pc' = "done"
    /\ UNCHANGED <<env, todo_tasks, known_eprocess, known_pids, run_i,
                   dtb_alignment, kernel, hits, rows>>

(***************************************************************************)
(* FileScan, DriverScan, SymLinkScan, MutantScan: generate_hits and render.*)
(***************************************************************************)
\* generate_hits builds its scanner and calls scanner.scan() over the whole
\* address space; IterObject(..., freed=True) runs on each pool header.
generate_hits_candidates(p, m) ==
    ObjectsOf(m, BaseScan(ChecksOf(p), m, 0, MemSize), TRUE)

\* Mutant: the device type is not looked at.
FileScan_yields_any_device(file_obj) == ~(file_obj.FileName = "")

\* FileScan.generate_hits: FALSE where the code continues.
FileScan_yields(file_obj) ==
    /\ ~(file_obj.FileName = "")
    /\ ~(~file_obj.DeviceTypeValid)

\* Mutant: the threshold is off by one.
MutantScan_yields_above(object_obj, v) ==
    ~(v <= MutantVerbosity /\ object_obj.Name = "")

\* MutantScan.generate_hits: FALSE where the code continues.
MutantScan_yields(object_obj, v) ==
    ~(v < MutantVerbosity /\ object_obj.Name = "")

FileScan_row(m, hit) ==
    [allocated |-> Allocated(m[hit.pool]),
     offset_p |-> hit.obj_offset,
     path |-> hit.body.FileName,
     body |-> hit.body,
     pool |-> hit.pool]

DriverScan_row(m, hit) ==
    [allocated |-> Allocated(m[hit.pool]),
     offset_p |-> hit.obj_offset,
     driver_name |-> hit.body.Name,
     path |-> hit.body.DriverName,
     body |-> hit.body,
     pool |-> hit.pool]

SymLinkScan_row(m, hit) ==
    [allocated |-> Allocated(m[hit.pool]),
     offset_p |-> hit.obj_offset,
     symlink_creation_time |->
        IF hit.body.CreationTime # 0 THEN <<hit.body.CreationTime>> ELSE <<>>,
     symlink_from |-> hit.body.Name,
     symlink_to |-> hit.body.LinkTarget,
     body |-> hit.body,
     pool |-> hit.pool]

\* MutantScan.render: "{0}:{1}".format(Cid.UniqueProcess, Cid.UniqueThread)
\* as the pair, "" as the empty sequence.
MutantScan_CID(mutant) ==
    IF mutant.OwnerThread > MutantKernel THEN mutant.Cid ELSE <<>>

MutantScan_row(m, hit) ==
    [allocated |-> Allocated(m[hit.pool]),
     offset_p |-> hit.obj_offset,
     mutant_thread |-> hit.body.OwnerThread,
     cid |-> MutantScan_CID(hit.body),
     mutant_name |-> hit.body.Name,
     body |-> hit.body,
     pool |-> hit.pool]

generate_hits_begin ==
    /\ plugin # "psscan"
    /\ pc = "start"
    /\ hits' = generate_hits_candidates(plugin, mem)
    /\ pc' = "scan"
    /\ UNCHANGED <<env, todo_tasks, known_eprocess, known_pids, run_i,
                   dtb_alignment, kernel, rows>>

Skip ==
    /\ hits' = Tail(hits)
    /\ UNCHANGED <<env, pc, todo_tasks, known_eprocess, known_pids, run_i,
                   dtb_alignment, kernel, rows>>

Emit(row) ==
    /\ rows' = Append(rows, row)
    /\ hits' = Tail(hits)
    /\ UNCHANGED <<env, pc, todo_tasks, known_eprocess, known_pids, run_i,
                   dtb_alignment, kernel>>

AtHit(p) == plugin = p /\ pc = "scan" /\ hits # <<>>

filescan_continue ==
    AtHit("filescan") /\ ~FileScan_yields(Head(hits).body) /\ Skip

filescan_row ==
    /\ AtHit("filescan")
    /\ FileScan_yields(Head(hits).body)
    /\ Emit(FileScan_row(mem, Head(hits)))

driverscan_row ==
    AtHit("driverscan") /\ Emit(DriverScan_row(mem, Head(hits)))

symlinkscan_row ==
    AtHit("symlinkscan") /\ Emit(SymLinkScan_row(mem, Head(hits)))

mutantscan_continue ==
    /\ AtHit("mutantscan")
    /\ ~MutantScan_yields(Head(hits).body, verbosity)
    /\ Skip

mutantscan_row ==
    /\ AtHit("mutantscan")
    /\ MutantScan_yields(Head(hits).body, verbosity)
    /\ Emit(MutantScan_row(mem, Head(hits)))

\* scanner.scan() is exhausted: render returns.
render_done ==
    /\ plugin # "psscan"
    /\ pc = "scan"
    /\ hits = <<>>
    /\ pc' = "done"
    /\ UNCHANGED <<env, todo_tasks, known_eprocess, known_pids, run_i,
                   dtb_alignment, kernel, hits, rows>>

Next ==
    \/ generate_hits_begin
    \/ filescan_continue
    \/ filescan_row
    \/ driverscan_row
    \/ symlinkscan_row
    \/ mutantscan_continue
    \/ mutantscan_row
    \/ render_done
    \/ collect_begin
    \/ collect_task
    \/ collect_run
    \/ scan_continue
    \/ collect_yield
    \/ collect_done

Spec == Init /\ [][Next]_vars

(***************************************************************************)
(* What the rows are checked against.                                      *)
(***************************************************************************)
RowIndexes == 1 .. Len(rows)
PsRows == IF plugin = "psscan" THEN RowIndexes ELSE {}

\* The authoritative list itself, as pslist.list_eprocess() enumerates it.
AuthoritativeAddresses ==
    {pslist_tasks[i].obj_offset : i \in 1 .. Len(pslist_tasks)}
AuthoritativePids ==
    {pslist_tasks[i].UniqueProcessId : i \in 1 .. Len(pslist_tasks)}

\* The candidate's counterpart in virtual space.
VirtualCounterpart(row) ==
    IF row.run.type = "PhysicalAS"
    THEN row.eprocess.virtual_offset
    ELSE row.offset_p

HasFlag(row, f) == \E k \in 1 .. Len(row.stat) : row.stat[k] = f

\* The boundary and the alignment the profile and address space call for.
Boundary ==
    IF MmSystemRangeStart # 0 THEN MmSystemRangeStart ELSE KernelDefault
Alignment == IF pae THEN DtbAlignPae ELSE DtbAlignPage

DtbSound(b) ==
    b.DirectoryTableBase # 0 /\ b.DirectoryTableBase % Alignment = 0
LinksSound(b) == b.Flink >= Boundary /\ b.Blink >= Boundary

\* The header checks other than the pool-state check.
OtherChecksPass(p, pool) ==
    /\ pool.tag = ChecksOf(p).tag
    /\ IF p = "driverscan" THEN pool.size > ChecksOf(p).min_size
                           ELSE pool.size >= ChecksOf(p).min_size
    /\ p # "symlinkscan" => pool.index = 0

\* The bodies in blocks [lo, hi) whose allocation passes those checks.
BodiesIn(lo, hi) ==
    UNION {{[pool |-> a, obj_offset |-> ObjOffset(a, i),
             body |-> mem[a].objs[i]] : i \in 1 .. Len(mem[a].objs)} :
           a \in {b \in Blocks : /\ lo <= b
                                  /\ b < hi
                                  /\ mem[b].tag # "none"
                                  /\ OtherChecksPass(plugin, mem[b])}}

RunBodies(i) == BodiesIn(runs[i].start, runs[i].start + runs[i].length)

HasRow(i, h) ==
    \E r \in PsRows : rows[r].run_index = i /\ rows[r].offset_p = h.obj_offset

HasHitRow(h) == \E r \in RowIndexes : rows[r].offset_p = h.obj_offset

(***************************************************************************)
(* C1.  Every psscan row carries 'E' exactly when the candidate's virtual  *)
(* counterpart (translated when the run is a PhysicalAS run, the candidate *)
(* itself otherwise) is in the authoritative process list, and 'P' exactly *)
(* when its UniqueProcessId is in the authoritative pid list; the two are  *)
(* decided independently, so a candidate in neither has no flag and one in *)
(* both has both.                                                          *)
(***************************************************************************)
C1_FlagsIndependent ==
    \A r \in PsRows :
        LET inE == VirtualCounterpart(rows[r]) \in AuthoritativeAddresses
            inP == rows[r].eprocess.UniqueProcessId \in AuthoritativePids
        IN  /\ HasFlag(rows[r], "E") <=> inE
            /\ HasFlag(rows[r], "P") <=> inP
            /\ (~inE /\ ~inP) => rows[r].stat = <<>>
            /\ (inE /\ inP) => rows[r].stat = <<"E", "P">>

\* A physically scanned candidate whose pid is known and whose address is not.
C1_Witness ==
    \E r \in PsRows :
        /\ rows[r].run.type = "PhysicalAS"
        /\ rows[r].stat = <<"P">>
        /\ Len(pslist_tasks) = 2

(***************************************************************************)
(* C2.  From the creation of the first scanner to the last row, the two    *)
(* sets hold exactly what the one enumeration of list_eprocess() gave:     *)
(* the snapshot is complete before any scanner exists and is the same for  *)
(* every row of the run.                                                   *)
(***************************************************************************)
C2_SnapshotFixed ==
    (plugin = "psscan" /\ (run_i > 0 \/ rows # <<>> \/ pc \in {"scan", "done"}))
        => /\ todo_tasks = <<>>
           /\ known_eprocess = AuthoritativeAddresses
           /\ known_pids = AuthoritativePids

\* The second run of a scan is under way, rows of both runs are out.
C2_Witness ==
    /\ plugin = "psscan"
    /\ run_i = 2
    /\ \E r1, r2 \in PsRows : rows[r1].run_index = 1 /\ rows[r2].run_index = 2
    /\ known_pids # {}

(***************************************************************************)
(* C3, as stated.  Over the whole output, of any two psscan rows the one   *)
(* emitted earlier has the smaller candidate offset.                       *)
(***************************************************************************)
C3_AscendingOverall ==
    \A i, j \in PsRows : i < j => rows[i].offset_p < rows[j].offset_p

(***************************************************************************)
(* C3, amended.  The rows follow the scan: of any two psscan rows the one  *)
(* emitted earlier comes from an earlier run, or from the same run and a   *)
(* lower pool header, or from the same pool allocation and a lower offset. *)
(***************************************************************************)
C3_ScanOrder ==
    \A i, j \in PsRows :
        i < j =>
            \/ rows[i].run_index < rows[j].run_index
            \/ /\ rows[i].run_index = rows[j].run_index
               /\ rows[i].pool < rows[j].pool
               /\ rows[i].offset_p < rows[j].offset_p
            \/ /\ rows[i].run_index = rows[j].run_index
               /\ rows[i].pool = rows[j].pool
               /\ rows[i].offset_p < rows[j].offset_p

\* Two runs, the second below the first, and two bodies of one allocation.
C3_Witness ==
    \E i, j, k \in PsRows :
        /\ i < j /\ j < k
        /\ rows[i].run_index = 1
        /\ rows[j].run_index = 2 /\ rows[k].run_index = 2
        /\ rows[j].pool = rows[k].pool
        /\ rows[j].offset_p < rows[i].offset_p

(***************************************************************************)
(* C4.  A psscan row exists only for a candidate whose DirectoryTableBase  *)
(* is non-zero and a multiple of the alignment, 0x20 under "pae" and       *)
(* 0x1000 otherwise, fixed when the scanner is built; and a candidate that *)
(* meets this (and the pointer check) is not rejected.                     *)
(***************************************************************************)
C4_DtbCheck ==
    /\ (plugin = "psscan" /\ run_i > 0) => dtb_alignment = Alignment
    /\ \A r \in PsRows : DtbSound(rows[r].eprocess) /\ rows[r].pdb # 0
    /\ (plugin = "psscan" /\ pc = "done") =>
          \A i \in 1 .. Len(runs) : \A h \in RunBodies(i) :
              (DtbSound(h.body) /\ LinksSound(h.body)) => HasRow(i, h)

\* Under PAE, a row whose table base is aligned to 0x20 and not to 0x1000.
C4_Witness ==
    /\ pae
    /\ pc = "done"
    /\ \E r \in PsRows : rows[r].pdb = DtbAlignPae

(***************************************************************************)
(* C5.  A psscan row exists only for a candidate whose Flink and Blink are *)
(* both at or above the boundary (MmSystemRangeStart, or 0x80000000 when   *)
(* that is zero or absent); a pointer equal to the boundary is accepted.   *)
(***************************************************************************)
C5_LinksCheck ==
    /\ (plugin = "psscan" /\ run_i > 0) => kernel = Boundary
    /\ \A r \in PsRows : LinksSound(rows[r].eprocess)
    /\ (plugin = "psscan" /\ pc = "done") =>
          \A i \in 1 .. Len(runs) : \A h \in RunBodies(i) :
              IF LinksSound(h.body)
              THEN DtbSound(h.body) => HasRow(i, h)
              ELSE ~HasRow(i, h)

\* A row whose Flink equals the boundary the profile reports.
C5_Witness ==
    /\ MmSystemRangeStart = KernelHigh
    /\ pc = "done"
    /\ \E r \in PsRows : rows[r].eprocess.Flink = KernelHigh

(***************************************************************************)
(* C6.  filescan yields a file object of a validated pool allocation       *)
(* exactly when its FileName is non-empty and its device type is valid;    *)
(* the others are dropped without a row and the scan goes on: when it      *)
(* ends, the rows are the candidates that meet both, in scan order.        *)
(***************************************************************************)
FileSound(b) == b.FileName # "" /\ b.DeviceTypeValid

FileCandidates ==
    ObjectsOf(mem, SortedSeq({a \in Blocks : /\ mem[a].tag # "none"
                                              /\ OtherChecksPass(plugin, mem[a])}),
              TRUE)

FileKept(h) == FileSound(h.body)

C6_FileYield ==
    plugin = "filescan" =>
        /\ \A r \in RowIndexes :
              FileSound(rows[r].body) /\ rows[r].path = rows[r].body.FileName
        /\ pc = "done" =>
              [r \in RowIndexes |-> rows[r].offset_p]
                = [k \in 1 .. Len(SelectSeq(FileCandidates, FileKept)) |->
                      SelectSeq(FileCandidates, FileKept)[k].obj_offset]

\* A row after two dropped candidates: one without a name, one whose device
\* type is invalid.
C6_Witness ==
    /\ plugin = "filescan"
    /\ pc = "done"
    /\ rows # <<>>
    /\ \E a \in Blocks : /\ mem[a].tag = "Fil"
                          /\ Len(mem[a].objs) = 2
                          /\ mem[a].objs[1].FileName = ""
                          /\ ~mem[a].objs[2].DeviceTypeValid
                          /\ mem[a].objs[2].FileName # ""
                          /\ OtherChecksPass(plugin, mem[a])
                          /\ \E r \in RowIndexes : rows[r].pool > a

(***************************************************************************)
(* C7, as stated.  The CID of a mutant row is the owning thread's          *)
(* process-id:thread-id pair exactly when OwnerThread is at or above the   *)
(* kernel/user boundary the process scanner uses (MmSystemRangeStart, or   *)
(* 0x80000000 when that is zero or absent), and blank otherwise.           *)
(***************************************************************************)
C7_CidAtOrAboveBoundary ==
    plugin = "mutantscan" =>
        \A r \in RowIndexes :
            IF rows[r].mutant_thread >= Boundary
            THEN rows[r].cid = rows[r].body.Cid
            ELSE rows[r].cid = <<>>

(***************************************************************************)
(* C8.  mutantscan drops a mutant with an empty name exactly when the      *)
(* verbosity is below 5: below 5 no row is unnamed, from 5 on every mutant *)
(* of every validated allocation has a row, and a named mutant has a row   *)
(* at every verbosity.                                                     *)
(***************************************************************************)
C8_UnnamedSuppressed ==
    plugin = "mutantscan" =>
        /\ verbosity < 5 => \A r \in RowIndexes : rows[r].mutant_name # ""
        /\ pc = "done" =>
              \A h \in BodiesIn(0, MemSize) :
                  HasHitRow(h) <=> (verbosity >= 5 \/ h.body.Name # "")

\* At verbosity 5 an unnamed mutant has a row.
C8_Witness ==
    /\ plugin = "mutantscan"
    /\ verbosity = 5
    /\ \E r \in RowIndexes : rows[r].mutant_name = ""

(***************************************************************************)
(* C9.  When the runs of a psscan are adjacent partitions of one range of  *)
(* one address space, the candidates it reports are those of a single scan *)
(* of the whole range, and none is reported twice.                         *)
(***************************************************************************)
Adjacent ==
    \A i \in 1 .. Len(runs) - 1 :
        /\ runs[i + 1].start = runs[i].start + runs[i].length
        /\ runs[i + 1].type = runs[i].type

WholeScan ==
    LET last == runs[Len(runs)]
    IN  {h \in BodiesIn(runs[1].start, last.start + last.length) :
            DtbSound(h.body) /\ LinksSound(h.body)}

KindSound(b) ==
    CASE plugin = "filescan" -> FileSound(b)
      [] plugin = "mutantscan" -> verbosity >= 5 \/ b.Name # ""
      [] plugin = "psscan" -> DtbSound(b) /\ LinksSound(b)
      [] OTHER -> TRUE

Scanned ==
    IF plugin = "psscan"
    THEN UNION {RunBodies(i) : i \in 1 .. Len(runs)}
    ELSE BodiesIn(0, MemSize)

C10_FreedMarked ==
    /\ \A r \in RowIndexes :
          /\ rows[r].allocated \in {"F", ""}
          /\ rows[r].allocated = "F" <=> mem[rows[r].pool].state = "free"
    /\ pc = "done" =>
          \A h \in Scanned : KindSound(h.body) => HasHitRow(h)

\* A row marked 'F' for a freed process of a free allocation.
C10_Witness ==
    /\ plugin = "psscan"
    /\ \E r \in RowIndexes :
          /\ rows[r].allocated = "F"
          /\ mem[rows[r].pool].state = "free"
          /\ rows[r].eprocess.freed

====
